---- MODULE Spec2Model ----
(***************************************************************************)
(* Model of src/autos/autos.py: the autostereogram pipeline.               *)
(*                                                                         *)
(* Images are row-major grids: im[y][x] is the pixel PIL addresses as      *)
(* pix[x, y].  A tile is given by its size <<w, h>>; its pixel (x, y) is   *)
(* represented by the pair <<x, y>>, so every pixel of a tile is distinct  *)
(* and an image pixel names the tile pixel it was copied from.  The code   *)
(* only copies pixel values and never inspects them, so this is the most   *)
(* discriminating tile there is.  A depth map holds samples of mode 'L'    *)
(* (after the conversion of line 92-93, which keeps the size).             *)
(*                                                                         *)
(* Python 3: '/' on line 81 is true division, so xshift and xpos are       *)
(* floats.  They are kept here exactly, in tenths of a pixel.  Pillow      *)
(* truncates a float pixel coordinate towards zero.                        *)
(***************************************************************************)
EXTENDS Integers, Sequences, FiniteSets, TLC

\* ------------------------------------------------------------- bounds
MaxW == 4
MaxH == 2
MaxTile == 3
MaxCanvas == 6
MaxDots == 2
DepthValues == {0, 5, 20}
TileDims == {<<100, 100>>, <<7, 5>>, <<200, 120>>}

\* ---------------------------------------------------- program constants
DepthDivisor == 10
RadiusDivisor == 100
DotCount == 1000
DefaultTile == <<100, 100>>
NoTile == <<>>
Black == <<-1, -1>>
NotRead == -1

VARIABLES pc, dims, dmap, tile, img, sImg, period, i, j, xshift, xpos, src,
          col, r, n, circle

vars == <<pc, dims, dmap, tile, img, sImg, period, i, j, xshift, xpos, src,
          col, r, n, circle>>

\* ------------------------------------------------------------ helpers
Min(a, b) == IF a < b THEN a ELSE b

\* im.size of a (non empty) image: (width, height)
Size(im) == <<Cardinality(DOMAIN im[0]), Cardinality(DOMAIN im)>>

\* Image.new(mode, size): every pixel 0 (black)
NewImage(size, v) == [y \in 0..(size[2] - 1) |-> [x \in 0..(size[1] - 1) |-> v]]

\* math.ceil(a / b) for positive ints
CeilFloor(a, b) == a \div b
Ceil(a, b) == (a + b - 1) \div b

\* img.paste(tile, (ox, oy)): the tile's pixels land at ox.., oy..; what falls
\* outside the canvas is dropped.
paste(im, t, ox, oy) ==
    [y \in DOMAIN im |->
        [x \in DOMAIN im[y] |->
            IF ox <= x /\ x < ox + t[1] /\ oy <= y /\ y < oy + t[2]
            THEN <<x - ox, y - oy>>
            ELSE im[y][x]]]

\* dmap.paste(v, (x0, y0, x1, y1)): fill the box, right and lower edge excluded
pasteValue(im, v, box) ==
    [y \in DOMAIN im |->
        [x \in DOMAIN im[y] |->
            IF box[1] <= x /\ x < box[3] /\ box[2] <= y /\ y < box[4]
            THEN v
            ELSE im[y][x]]]

\* ------------------------------------------------- createTiledImage
CanvasWholeTiles(t, d) == <<Ceil(d[1], t[1]) * t[1], Ceil(d[2], t[2]) * t[2]>>
CanvasSize(t, d) == d

Cols(t, d) == Ceil(d[1], t[1])
Rows(t, d) == Ceil(d[2], t[2])

\* the origin of the grid cell of row ii and column jj: (j*w, i*h)
PasteOrigin(ii, jj, t) == <<jj * t[1], ii * t[2]>>

PasteCell(im, t, ii, jj) ==
    paste(im, t, PasteOrigin(ii, jj, t)[1], PasteOrigin(ii, jj, t)[2])

RECURSIVE PasteFrom(_, _, _, _)
PasteFrom(im, t, d, k) ==
    IF k >= Rows(t, d) * Cols(t, d) THEN im
    ELSE PasteFrom(PasteCell(im, t, k \div Cols(t, d), k % Cols(t, d)), t, d, k + 1)

createTiledImage(t, d) == PasteFrom(NewImage(CanvasSize(t, d), Black), t, d, 0)

\* ---------------------------------------------------- createDepthMap
createDepthMap(d) ==
    pasteValue(pasteValue(pasteValue(NewImage(d, 0),
        10, <<200, 25, 300, 125>>),
        30, <<200, 150, 300, 250>>),
        20, <<200, 275, 300, 375>>)

\* ------------------------------------------- createDepthShiftedImage
\* xshift = pixD[i, j]/10, in tenths
XShift(D, ii, jj) == (D[jj][ii] * 10) \div DepthDivisor

\* xpos = i - period + xshift, in tenths
XPosMinus(D, p, ii, jj) == 10 * (ii - p) - XShift(D, ii, jj)
XPos(D, p, ii, jj) == 10 * (ii - p) + XShift(D, ii, jj)

\* 0 < xpos < cols
InRangeInclusive(xp, cols) == 0 <= xp /\ xp < 10 * cols
InRange(xp, cols) == 0 < xp /\ xp < 10 * cols

\* the column a float coordinate addresses: truncated towards zero
PixIndexRound(xp) == (xp + 5) \div 10
PixIndex(xp) == IF xp >= 0 THEN xp \div 10 ELSE -((-xp) \div 10)

\* the buffer line 84 reads: pixS, the one it writes
ReadBufferSplit(S, orig) == orig
ReadBuffer(S, orig) == S

\* pixS[xpos, j]
ReadPixelRowAbove(S, x, jj) == S[IF jj > 0 THEN jj - 1 ELSE jj][x]
ReadPixel(S, x, jj) == S[jj][x]

\* one iteration of the inner loop, lines 81-84
ShiftPixel(S, orig, D, p, ii, jj) ==
    LET xp == XPos(D, p, ii, jj) IN
    IF InRange(xp, Size(S)[1])
    THEN [S EXCEPT ![jj][ii] = ReadPixel(ReadBuffer(S, orig), PixIndex(xp), jj)]
    ELSE S

\* the inner loop over the columns lo..hi-1 of row jj, left to right, lines
\* 80-84 (the range is halved so that a wide row does not nest deeply)
RECURSIVE ShiftCols(_, _, _, _, _, _, _)
ShiftCols(S, orig, D, p, lo, hi, jj) ==
    IF lo >= hi THEN S
    ELSE IF hi = lo + 1 THEN ShiftPixel(S, orig, D, p, lo, jj)
    ELSE LET mid == (lo + hi) \div 2
             left == ShiftCols(S, orig, D, p, lo, mid, jj)
         IN  \* the pass keeps the size; the test has the left half computed first
             IF Size(left) = Size(S)
             THEN ShiftCols(left, orig, D, p, mid, hi, jj)
             ELSE left

\* the outer loop over the rows lo..hi-1, top to bottom, lines 79-84
RECURSIVE ShiftRows(_, _, _, _, _, _)
ShiftRows(S, orig, D, p, lo, hi) ==
    IF lo >= hi THEN S
    ELSE IF hi = lo + 1 THEN ShiftCols(S, orig, D, p, 0, Size(S)[1], lo)
    ELSE LET mid == (lo + hi) \div 2
             top == ShiftRows(S, orig, D, p, lo, mid)
         IN  IF Size(top) = Size(S)
             THEN ShiftRows(top, orig, D, p, mid, hi)
             ELSE top

\* lines 73-86: the copy, the pass, the result
createDepthShiftedImage(D, im, p) == ShiftRows(im, im, D, p, 0, Size(im)[2])

\* the period createAutostereogram passes: tile.size[0]
PeriodArgHeight(t) == t[2]
PeriodArg(t) == t[1]

\* ------------------------------------------------------------- inputs
Sizes == (1..MaxW) \X (1..MaxH)
Tiles == (1..MaxTile) \X (1..MaxTile)
CanvasSizes == (1..MaxCanvas) \X (1..MaxH)

\* depth maps: a flat background with one rectangle of another depth
DepthMaps(d) ==
    { pasteValue(NewImage(d, b), v, <<x0, y0, x1, y1>>) :
        b \in DepthValues, v \in DepthValues,
        x0 \in 0..(d[1] - 1), x1 \in 1..d[1],
        y0 \in 0..(d[2] - 1), y1 \in 1..d[2] }

\* ------------------------------------------- createAutostereogram
Init ==
    /\ pc = "createAutostereogram"
    /\ \E d \in CanvasSizes : dmap \in DepthMaps(d)
    /\ tile \in Tiles \cup {NoTile}
    /\ dims = <<0, 0>> /\ img = <<>>
    /\ sImg = <<>> /\ period = 0 /\ i = 0 /\ j = 0
    /\ xshift = 0 /\ xpos = 0 /\ src = <<>> /\ col = <<>>
    /\ r = 0 /\ n = 0 /\ circle = <<>>

\* lines 95-98 and 46-51: resolve the tile, call createTiledImage(tile, dmap.size)
ResolveTile ==
    /\ pc = "createAutostereogram"
    /\ tile' = IF tile = NoTile THEN DefaultTile ELSE tile
    /\ dims' = Size(dmap)
    /\ img' = NewImage(CanvasSize(tile', dims'), Black)
    /\ i' = 0 /\ j' = 0
    /\ pc' = "paste"
    /\ UNCHANGED <<dmap, sImg, period, xshift, xpos, src, col, r, n, circle>>

\* lines 53-55: one img.paste(tile, (j*w, i*h))
PasteTile ==
    /\ pc = "paste"
    /\ i < Rows(tile, dims)
    /\ img' = PasteCell(img, tile, i, j)
    /\ IF j + 1 < Cols(tile, dims)
       THEN j' = j + 1 /\ i' = i
       ELSE j' = 0 /\ i' = i + 1
    /\ UNCHANGED <<pc, dims, dmap, tile, sImg, period, xshift, xpos, src, col,
                   r, n, circle>>

\* lines 57 and 100: return img; call createDepthShiftedImage(dmap, img, tile.size[0])
TiledReturn ==
    /\ pc = "paste"
    /\ i >= Rows(tile, dims)
    /\ period' = PeriodArg(tile)
    /\ pc' = "createDepthShiftedImage"
    /\ i' = 0 /\ j' = 0
    /\ UNCHANGED <<dims, dmap, tile, img, sImg, xshift, xpos, src, col, r, n,
                   circle>>

\* lines 71-78: the size check, the copy
Enter ==
    /\ pc = "createDepthShiftedImage"
    /\ IF Size(dmap) # Size(img)
       THEN pc' = "AssertionError" /\ UNCHANGED <<sImg, col>>
       ELSE /\ pc' = "shift"
            /\ sImg' = img
            /\ col' = [y \in DOMAIN img |-> 0]
    /\ i' = 0 /\ j' = 0
    /\ UNCHANGED <<dims, dmap, tile, img, period, xshift, xpos, src, r, n,
                   circle>>

\* lines 79-84: the whole pass
ShiftAll ==
    /\ pc = "shift"
    /\ j < Size(sImg)[2]
    /\ sImg' = ShiftRows(sImg, img, dmap, period, 0, Size(sImg)[2])
    /\ j' = Size(sImg)[2]
    /\ UNCHANGED <<pc, dims, dmap, tile, img, period, i, xshift, xpos, src,
                   col, r, n, circle>>

\* line 86
Return ==
    /\ pc = "shift"
    /\ j >= Size(sImg)[2]
    /\ pc' = "done"
    /\ UNCHANGED <<dims, dmap, tile, img, sImg, period, i, j, xshift, xpos,
                   src, col, r, n, circle>>

Next == ResolveTile \/ PasteTile \/ TiledReturn \/ Enter \/ ShiftAll \/ Return

Spec == Init /\ [][Next]_vars

\* ------------------- createDepthShiftedImage called on its own, pixel by pixel
\* The image argument is any tiling of the depth map's size (a tile at least as
\* wide as the canvas gives rows of distinct pixels); the period is any
\* positive integer up to the widest canvas.
InputImages(d) == { createTiledImage(<<w, d[2]>>, d) : w \in 1..MaxW }

InitShift ==
    /\ pc = "createDepthShiftedImage"
    /\ \E d \in Sizes :
          /\ dmap \in DepthMaps(d)
          /\ img \in InputImages(d)
          /\ dims = d
          /\ src = NewImage(d, NotRead)
    /\ period \in 1..MaxW
    /\ tile = NoTile
    /\ sImg = <<>> /\ i = 0 /\ j = 0
    /\ xshift = 0 /\ xpos = 0 /\ col = <<>>
    /\ r = 0 /\ n = 0 /\ circle = <<>>

\* lines 81-84 for the pixel (i, j); src[j][i] records the column it read, if
\* any (src is no variable of the code: it is kept for the claims)
Body ==
    /\ pc = "shift"
    /\ j < Size(sImg)[2]
    /\ xshift' = XShift(dmap, i, j)
    /\ xpos' = XPos(dmap, period, i, j)
    /\ sImg' = ShiftPixel(sImg, img, dmap, period, i, j)
    /\ src' = IF InRange(xpos', Size(sImg)[1])
              THEN [src EXCEPT ![j][i] = PixIndex(xpos')]
              ELSE src
    /\ pc' = "next"
    /\ UNCHANGED <<dims, dmap, tile, img, period, i, j, col, r, n, circle>>

\* the loop headers of lines 79-80: the next column, or the next row
Advance ==
    /\ pc = "next"
    /\ IF i + 1 < Size(sImg)[1]
       THEN i' = i + 1 /\ j' = j
       ELSE i' = 0 /\ j' = j + 1
    /\ pc' = "shift"
    /\ UNCHANGED <<dims, dmap, tile, img, sImg, period, xshift, xpos, src, col,
                   r, n, circle>>

NextShift == Enter \/ Body \/ Advance \/ Return

SpecShift == InitShift /\ [][NextShift]_vars

\* ------------------ the rows of the pass as workers, one per row, interleaved
\* Each worker runs the inner loop of lines 80-84 on its own row, left to
\* right, on the shared buffer; col[y] is the next column of row y.
InitRows ==
    /\ pc = "createDepthShiftedImage"
    /\ \E d \in Sizes :
          /\ dmap \in DepthMaps(d)
          /\ img = createTiledImage(d, d)
          /\ dims = d
    /\ period \in 1..MaxW
    /\ tile = NoTile
    /\ sImg = <<>> /\ i = 0 /\ j = 0
    /\ xshift = 0 /\ xpos = 0 /\ src = <<>> /\ col = <<>>
    /\ r = 0 /\ n = 0 /\ circle = <<>>

RowWorker ==
    /\ pc = "shift"
    /\ \E y \in DOMAIN col :
          /\ col[y] < Size(sImg)[1]
          /\ sImg' = ShiftPixel(sImg, img, dmap, period, col[y], y)
          /\ col' = [col EXCEPT ![y] = col[y] + 1]
    /\ UNCHANGED <<pc, dims, dmap, tile, img, period, i, j, xshift, xpos, src,
                   r, n, circle>>

Join ==
    /\ pc = "shift"
    /\ \A y \in DOMAIN col : col[y] >= Size(sImg)[1]
    /\ pc' = "done"
    /\ UNCHANGED <<dims, dmap, tile, img, sImg, period, i, j, xshift, xpos,
                   src, col, r, n, circle>>

NextRows == Enter \/ RowWorker \/ Join

SpecRows == InitRows /\ [][NextRows]_vars

\* ------------------------------------------ the three-band scenario
\* createDepthMap's map on a few canvases, tiled with a few tiles; the first
\* of each is the scenario of the end-to-end test.
ScenarioSize == <<400, 200>>
ScenarioTile == <<100, 100>>
ScenarioSizes == {ScenarioSize, <<400, 400>>, <<300, 200>>}
ScenarioTiles == {ScenarioTile, <<50, 100>>}

InitScenario ==
    /\ pc = "createAutostereogram"
    /\ \E d \in ScenarioSizes : dmap = createDepthMap(d)
    /\ tile \in ScenarioTiles
    /\ dims = <<0, 0>> /\ img = <<>>
    /\ sImg = <<>> /\ period = 0 /\ i = 0 /\ j = 0
    /\ xshift = 0 /\ xpos = 0 /\ src = <<>> /\ col = <<>>
    /\ r = 0 /\ n = 0 /\ circle = <<>>

SpecScenario == InitScenario /\ [][Next]_vars

\* --------------------------------------------------- createRandomTile
\* line 30
Radius(d) == Min(d[1], d[2]) \div RadiusDivisor

\* random.randint(lo, hi) returns any integer of lo..hi; the model draws the
\* two ends, their neighbours and the middle.
RandInt(lo, hi) == {lo, lo + 1, (lo + hi) \div 2, hi - 1, hi} \cap (lo..hi)

\* line 36: the range of a centre coordinate
CenterDraws(len, rad) == RandInt(0, len - rad)

\* line 39: the bounding box handed to draw.ellipse
BBox(x, y, rad) == <<x - rad, y - rad, x + rad, y + rad>>

InitTile ==
    /\ pc = "createRandomTile"
    /\ dims \in TileDims
    /\ dmap = <<>> /\ tile = NoTile /\ img = <<>>
    /\ sImg = <<>> /\ period = 0 /\ i = 0 /\ j = 0
    /\ xshift = 0 /\ xpos = 0 /\ src = <<>> /\ col = <<>>
    /\ r = 0 /\ n = 0 /\ circle = <<>>

\* lines 27-32
StartTile ==
    /\ pc = "createRandomTile"
    /\ r' = Radius(dims)
    /\ n' = 0
    /\ pc' = "dots"
    /\ UNCHANGED <<dims, dmap, tile, img, sImg, period, i, j, xshift, xpos,
                   src, col, circle>>

\* lines 34-39: one circle (its colour does not bear on where it lies)
DrawDot ==
    /\ pc = "dots"
    /\ n < Min(DotCount, MaxDots)
    /\ \E x \in CenterDraws(dims[1], r), y \in CenterDraws(dims[2], r) :
          circle' = BBox(x, y, r)
    /\ n' = n + 1
    /\ UNCHANGED <<pc, dims, dmap, tile, img, sImg, period, i, j, xshift, xpos,
                   src, col, r>>

\* line 41
TileReturn ==
    /\ pc = "dots"
    /\ n >= Min(DotCount, MaxDots)
    /\ pc' = "done"
    /\ UNCHANGED <<dims, dmap, tile, img, sImg, period, i, j, xshift, xpos,
                   src, col, r, n, circle>>

NextTile == StartTile \/ DrawDot \/ TileReturn

SpecTile == InitTile /\ [][NextTile]_vars

\* ====================================================== the claims
Width == Size(sImg)[1]
Uniform(D, d) == \A y \in DOMAIN D : \A x \in DOMAIN D[y] : D[y][x] = d

\* C1 as stated: after createDepthShiftedImage, for any depth map and any
\* period, every pixel in the first `period` columns equals the tiled image's.
C1_AnyDepthStripUnchanged ==
    pc = "done" =>
        \A y \in DOMAIN sImg : \A x \in DOMAIN sImg[y] :
            x < period => sImg[y][x] = img[y][x]

\* C1 amended: a pixel (i, j) of the first `period` columns whose depth sample
\* is at most 10 * (period - i), so that xpos <= 0, equals the tiled image's.
C1_StripUnchangedForSmallDepth ==
    pc = "done" =>
        \A y \in DOMAIN sImg : \A x \in DOMAIN sImg[y] :
            (x < period /\ dmap[y][x] <= DepthDivisor * (period - x))
                => sImg[y][x] = img[y][x]

C1_Witness ==
    /\ pc = "done"
    /\ \E y \in DOMAIN sImg : \E x, x2 \in DOMAIN sImg[y] :
          /\ x < period /\ dmap[y][x] > 0
          /\ dmap[y][x] <= DepthDivisor * (period - x)
          /\ sImg[y][x] = img[y][x]
          /\ sImg[y][x2] # img[y][x2]

\* C2 as stated: with the same depth d everywhere, every column i >= period
\* whose source x = i - period + floor(d/10) lies in (0, W) holds the tiled
\* image's pixel of column x.
C2_UniformDepthReadsTiled ==
    pc = "done" =>
        \A d \in DepthValues : Uniform(dmap, d) =>
            \A y \in DOMAIN sImg : \A x \in DOMAIN sImg[y] :
                LET s == x - period + d \div DepthDivisor IN
                (x >= period /\ 0 < s /\ s < Width) => sImg[y][x] = img[y][s]

\* C2 amended: with the same depth d everywhere, such a column holds the
\* output's pixel of column x when x < i, and the tiled image's pixel of column
\* x when x was not overwritten before it was read (x >= i, or
\* x - period + d/10 <= 0).
C2_UniformDepthReadsBuffer ==
    pc = "done" =>
        \A d \in DepthValues : Uniform(dmap, d) =>
            \A y \in DOMAIN sImg : \A x \in DOMAIN sImg[y] :
                LET s == x - period + d \div DepthDivisor IN
                (x >= period /\ 0 < s /\ s < Width) =>
                    /\ s < x => sImg[y][x] = sImg[y][s]
                    /\ (s >= x \/ DepthDivisor * (s - period) + d <= 0)
                          => sImg[y][x] = img[y][s]

C2_Witness ==
    /\ pc = "done"
    /\ \E d \in DepthValues :
          /\ Uniform(dmap, d)
          /\ \E y \in DOMAIN sImg : \E x \in DOMAIN sImg[y] :
                LET s == x - period + d \div DepthDivisor IN
                /\ x >= period /\ 0 < s /\ s < x
                /\ DepthDivisor * (s - period) + d > 0
                /\ sImg[y][x] = sImg[y][s]
                /\ sImg[y][x] # img[y][s]

\* C3: with a depth map that is zero everywhere and the tile's width passed as
\* the period, every column i with period <= i < W of the output holds the
\* tiled image's pixel of column i - period.
C3_ZeroDepthIdentity ==
    (pc = "done" /\ Uniform(dmap, 0)) =>
        \A y \in DOMAIN sImg : \A x \in DOMAIN sImg[y] :
            x >= period => sImg[y][x] = img[y][x - period]

C3_Witness ==
    /\ pc = "done" /\ Uniform(dmap, 0)
    /\ period = tile[1]
    /\ Width >= 2 * period + 2
    /\ sImg[0][2 * period + 1] = img[0][period + 1]

\* C4 as stated: in the three-band scenario every pixel (i, j), i >= 100, of
\* depth 30 holds the tiled image's pixel of column i - 100 + 3.
C4_Depth30ReadsTiled ==
    (pc = "done" /\ Size(dmap) = ScenarioSize /\ tile = ScenarioTile) =>
        \A y \in DOMAIN sImg : \A x \in DOMAIN sImg[y] :
            (x >= period /\ dmap[y][x] = 30)
                => sImg[y][x] = img[y][x - period + 30 \div DepthDivisor]

\* C4 amended: in the three-band scenario a pixel (i, j), i >= 100, of depth 30
\* holds the tiled image's pixel of column i - 100 + 3 when that column's own
\* depth is 0 (i <= 296); for i in 297..299, whose source column is of depth 30
\* too, it holds the output's pixel of column i - 97, which is the tiled
\* image's pixel of column i - 94.
C4_Depth30ReadsBuffer ==
    (pc = "done" /\ Size(dmap) = ScenarioSize /\ tile = ScenarioTile) =>
        \A y \in DOMAIN sImg : \A x \in DOMAIN sImg[y] :
            (x >= period /\ dmap[y][x] = 30) =>
                LET s == x - period + 30 \div DepthDivisor IN
                IF dmap[y][s] = 0
                THEN sImg[y][x] = img[y][s]
                ELSE /\ dmap[y][s] = 30
                     /\ sImg[y][x] = sImg[y][s]
                     /\ sImg[y][x] = img[y][s + 30 \div DepthDivisor]

C4_Witness ==
    /\ pc = "done"
    /\ Size(sImg) = ScenarioSize /\ tile = ScenarioTile
    /\ dmap[150][250] = 30 /\ sImg[150][250] = img[150][153]
    /\ dmap[199][299] = 30 /\ sImg[199][299] = img[199][205]
    /\ sImg[199][299] # img[199][202]

\* C5: createTiledImage returns an image of the canvas size in which every
\* pixel (x, y) is the tile's pixel (x mod w, y mod h), also for a tile larger
\* than the canvas.
C5_TilingCoverage ==
    pc \in {"createDepthShiftedImage", "shift", "done"} =>
        /\ Size(img) = dims
        /\ \A y \in DOMAIN img : \A x \in DOMAIN img[y] :
              img[y][x] = <<x % tile[1], y % tile[2]>>

C5_Witness ==
    /\ pc = "createDepthShiftedImage"
    /\ tile[1] < dims[1] /\ dims[1] % tile[1] # 0
    /\ tile[2] < dims[2]
    /\ img[dims[2] - 1][dims[1] - 1] = <<(dims[1] - 1) % tile[1], (dims[2] - 1) % tile[2]>>

\* C6 as stated: every circle createRandomTile draws has its whole bounding
\* box (x-r, y-r, x+r, y+r) inside [0, w) x [0, h).
C6_DotInsideTile ==
    circle # <<>> =>
        /\ 0 <= circle[1] /\ 0 <= circle[2]
        /\ circle[3] < dims[1] /\ circle[4] < dims[2]

\* C7: in a run of createAutostereogram the size assertion never fails, and
\* the tiled image and the returned image have the depth map's size.
C7_DimensionInvariant ==
    /\ pc # "AssertionError"
    /\ pc \in {"createDepthShiftedImage", "shift", "done"} => Size(img) = Size(dmap)
    /\ pc \in {"shift", "done"} => Size(sImg) = Size(dmap)

C7_Witness ==
    /\ pc = "done"
    /\ tile = DefaultTile
    /\ Size(dmap) = <<MaxCanvas, MaxH>>
    /\ Size(sImg) = Size(dmap)

\* C8: at the end of the pass, every column that was overwritten from a source
\* column to its left holds the output's pixel of that source column.
C8_ReadAfterWrite ==
    pc = "done" =>
        \A y \in DOMAIN sImg : \A x \in DOMAIN sImg[y] :
            (src[y][x] # NotRead /\ src[y][x] < x)
                => sImg[y][x] = sImg[y][src[y][x]]

C8_Witness ==
    /\ pc = "done"
    /\ \E y \in DOMAIN sImg : \E x \in DOMAIN sImg[y] :
          /\ src[y][x] # NotRead /\ src[y][x] < x
          /\ sImg[y][src[y][x]] # img[y][src[y][x]]
          /\ sImg[y][x] = sImg[y][src[y][x]]

\* C9: when the rows are passed over by interleaved workers, each left to
\* right, the output is the one the row-by-row pass of the code gives.
C9_RowIndependence ==
    pc = "done" => sImg = createDepthShiftedImage(dmap, img, period)

C9_Witness ==
    /\ pc = "done"
    /\ Size(sImg)[2] >= 2
    /\ sImg[0] # img[0] /\ sImg[1] # img[1]
    /\ sImg = createDepthShiftedImage(dmap, img, period)

\* C10 as stated: in every iteration the pixel is overwritten exactly when the
\* integer i - period + floor(D[i,j]/10) lies in (0, W), the column read is
\* that integer, and column 0 is never read.
C10_IntegerDisparity ==
    pc = "next" =>
        LET s == i - period + dmap[j][i] \div DepthDivisor IN
        /\ (src[j][i] # NotRead) <=> (0 < s /\ s < Width)
        /\ src[j][i] # NotRead => src[j][i] = s
        /\ src[j][i] # 0

====
